---- MODULE Spec2Model ----
(***************************************************************************)
(* Model of tree_to_sas.py (get_rules, translate_text_to_sas,              *)
(* get_front_add) and of the driver loop of example_sas_rules.py.          *)
(*                                                                         *)
(* A Python str is a sequence of one-character strings.  A decision tree   *)
(* is the set of heap indices of its internal nodes (root 1, children 2i   *)
(* and 2i+1); every other child position is a leaf.                        *)
(***************************************************************************)
EXTENDS Integers, Sequences, FiniteSets, TLC

(***************************************************************************)
(* Bounds of the model.                                                    *)
(***************************************************************************)
MaxNodes == 3       \* internal nodes in the whole forest
MaxTrees == 2       \* trees in the forest handed to the driver loop
MaxSpacing == 3     \* largest value of the spacing parameter

(***************************************************************************)
(* Python str primitives.                                                  *)
(***************************************************************************)
NL == "\n"

Whitespace == {" ", NL, "\t"}

Digits == <<"0", "1", "2", "3", "4", "5", "6", "7", "8", "9">>

\* c * n
Repeat(c, n) == [k \in 1..n |-> c]

\* s[a-1:b] with Python's clipping of an empty range
Slice(s, a, b) == IF a > b THEN <<>> ELSE SubSeq(s, a, b)

\* pat in s
Contains(s, pat) ==
    \E k \in 1..(Len(s) - Len(pat) + 1) : SubSeq(s, k, k + Len(pat) - 1) = pat

\* whether pat occurs in s at position k
OccursAt(s, pat, k) ==
    /\ k + Len(pat) - 1 <= Len(s)
    /\ \A j \in 1..Len(pat) : s[k + j - 1] = pat[j]

\* s.replace(a, b) for single characters a and b
ReplaceChar(s, a, b) == [k \in 1..Len(s) |-> IF s[k] = a THEN b ELSE s[k]]

RECURSIVE ReplaceFrom(_, _, _, _)
ReplaceFrom(s, old, new, k) ==
    IF k > Len(s) THEN <<>>
    ELSE IF OccursAt(s, old, k)
         THEN new \o ReplaceFrom(s, old, new, k + Len(old))
         ELSE <<s[k]>> \o ReplaceFrom(s, old, new, k + 1)

RECURSIVE Interleave(_, _, _)
Interleave(s, new, k) ==
    IF k > Len(s) THEN new
    ELSE new \o <<s[k]>> \o Interleave(s, new, k + 1)

\* s.replace(old, new): every non-overlapping occurrence, left to right;
\* an empty old matches before every character and at the end
Replace(s, old, new) ==
    IF Len(old) = 0 THEN Interleave(s, new, 1) ELSE ReplaceFrom(s, old, new, 1)

\* index of the last non-whitespace character of s[1..k], 0 if none
RECURSIVE LastNonWs(_, _)
LastNonWs(s, k) ==
    IF k = 0 THEN 0
    ELSE IF s[k] \in Whitespace THEN LastNonWs(s, k - 1) ELSE k

\* index of the last whitespace character of s[1..k], 0 if none
RECURSIVE LastWs(_, _)
LastWs(s, k) ==
    IF k = 0 THEN 0
    ELSE IF s[k] \in Whitespace THEN k ELSE LastWs(s, k - 1)

\* s.rstrip()
RStrip(s) == Slice(s, 1, LastNonWs(s, Len(s)))

\* index of the first character of s[k..] that is not c, Len(s)+1 if none
RECURSIVE FirstNot(_, _, _)
FirstNot(s, c, k) ==
    IF k > Len(s) THEN k
    ELSE IF s[k] = c THEN FirstNot(s, c, k + 1) ELSE k

\* len(s) - len(s.lstrip(' '))
LeadingSpaces(s) == FirstNot(s, " ", 1) - 1

\* s.split(sep) for a one-character sep: the segments between successive
\* occurrences of sep, the text before the first and after the last included
Split(s, sep) ==
    LET at == {k \in 1..Len(s) : s[k] = sep}
        nth(j) == IF j = 0 THEN 0
                  ELSE IF j > Cardinality(at) THEN Len(s) + 1
                  ELSE CHOOSE k \in at : Cardinality({m \in at : m < k}) = j - 1
    IN  [j \in 1..(Cardinality(at) + 1) |-> Slice(s, nth(j - 1) + 1, nth(j) - 1)]

\* s.rsplit(maxsplit=1): <<head, last word>>, or <<word>> / <<>> when the
\* text holds fewer than two words (unpacking into two names then fails)
RSplit1(s) ==
    LET e == LastNonWs(s, Len(s))
        w == LastWs(s, e)
        h == LastNonWs(s, w)
    IN  IF e = 0 THEN <<>>
        ELSE IF h = 0 THEN <<Slice(s, w + 1, e)>>
        ELSE <<Slice(s, 1, h), Slice(s, w + 1, e)>>

\* str(n) for n >= 0
RECURSIVE IntToStr(_)
IntToStr(n) ==
    IF n < 10 THEN <<Digits[n + 1]>>
    ELSE IntToStr(n \div 10) \o <<Digits[(n % 10) + 1]>>

RECURSIVE Pow10(_)
Pow10(n) == IF n = 0 THEN 1 ELSE 10 * Pow10(n - 1)

\* n written with exactly w digits
RECURSIVE ZeroPad(_, _)
ZeroPad(n, w) ==
    IF w = 0 THEN <<>> ELSE ZeroPad(n \div 10, w - 1) \o <<Digits[(n % 10) + 1]>>

DigitValue(c) == CHOOSE d \in 0..9 : Digits[d + 1] = c

IsDigit(c) == \E d \in 0..9 : Digits[d + 1] = c


(***************************************************************************)
(* Numbers.  export_text is called with decimals=6, so a threshold is an   *)
(* integer number of millionths.                                           *)
(***************************************************************************)
Decimals == 6

Abs(v) == IF v < 0 THEN 0 - v ELSE v

\* number of decimal digits of a >= 1
RECURSIVE NumDigits(_)
NumDigits(a) == IF a < 10 THEN 1 ELSE 1 + NumDigits(a \div 10)

\* "{:.6f}".format(v / 10^6), the renderer's threshold format
FormatFixed(v) ==
    (IF v < 0 THEN <<"-">> ELSE <<>>)
    \o IntToStr(Abs(v) \div Pow10(Decimals)) \o <<".">>
    \o ZeroPad(Abs(v) % Pow10(Decimals), Decimals)

\* s without its trailing "0" characters
RECURSIVE StripZeros(_)
StripZeros(s) ==
    IF Len(s) > 0 /\ s[Len(s)] = "0" THEN StripZeros(SubSeq(s, 1, Len(s) - 1))
    ELSE s

\* a / d rounded to the nearest integer, ties to even
RoundDiv(a, d) ==
    LET q == a \div d
        r == a % d
    IN  IF 2 * r > d \/ (2 * r = d /\ q % 2 = 1) THEN q + 1 ELSE q

\* "{:g}".format(v / 10^6): six significant digits, trailing zeros removed,
\* exponent notation when the decimal exponent is < -4 or >= 6
FormatG(v) ==
    IF v = 0 THEN <<"0">>
    ELSE
    LET a   == Abs(v)
        nd  == NumDigits(a)
        m0  == IF nd > 6 THEN RoundDiv(a, Pow10(nd - 6)) ELSE a * Pow10(6 - nd)
        ovf == m0 = Pow10(6)
        m   == IF ovf THEN Pow10(5) ELSE m0
        ex  == (nd - 1 - Decimals) + (IF ovf THEN 1 ELSE 0)
        d   == ZeroPad(m, 6)
        sgn == IF v < 0 THEN <<"-">> ELSE <<>>
        frac(t) == LET z == StripZeros(t) IN IF Len(z) = 0 THEN <<>> ELSE <<".">> \o z
    IN  IF ex < -4 \/ ex >= 6
        THEN sgn \o <<d[1]>> \o frac(SubSeq(d, 2, 6)) \o <<"e">>
             \o (IF ex < 0 THEN <<"-">> ELSE <<"+">>) \o ZeroPad(Abs(ex), 2)
        ELSE IF ex >= 0
        THEN sgn \o SubSeq(d, 1, ex + 1) \o frac(Slice(d, ex + 2, 6))
        ELSE sgn \o <<"0">> \o frac(Repeat("0", (0 - ex) - 1) \o d)

\* the decimal literals float() is given here: [-]digits[.digits] with at
\* most six fraction digits
IsFloatLiteral(s) ==
    LET b == IF Len(s) > 0 /\ s[1] = "-" THEN Slice(s, 2, Len(s)) ELSE s
        parts == Split(b, ".")
    IN  /\ Len(parts) \in {1, 2}
        /\ Len(parts[1]) > 0
        /\ \A k \in 1..Len(parts[1]) : IsDigit(parts[1][k])
        /\ Len(parts) = 2 =>
              /\ Len(parts[2]) <= Decimals
              /\ \A k \in 1..Len(parts[2]) : IsDigit(parts[2][k])

RECURSIVE DigitsToInt(_, _)
DigitsToInt(s, k) ==
    IF k = 0 THEN 0 ELSE 10 * DigitsToInt(s, k - 1) + DigitValue(s[k])

\* float(s), in millionths
ParseFloat(s) ==
    LET neg == Len(s) > 0 /\ s[1] = "-"
        b == IF neg THEN Slice(s, 2, Len(s)) ELSE s
        parts == Split(b, ".")
        ip == DigitsToInt(parts[1], Len(parts[1]))
        fp == IF Len(parts) = 2
              THEN DigitsToInt(parts[2], Len(parts[2])) * Pow10(Decimals - Len(parts[2]))
              ELSE 0
        a == ip * Pow10(Decimals) + fp
    IN  IF neg THEN 0 - a ELSE a


(***************************************************************************)
(* The fitted trees and the feature names the caller passes.               *)
(***************************************************************************)
\* child positions of S that are not internal nodes
Frontier(S) ==
    IF S = {} THEN {1} ELSE {c \in UNION {{2 * n, 2 * n + 1} : n \in S} : c \notin S}

\* the binary trees with k internal nodes
RECURSIVE TreesOfSize(_)
TreesOfSize(k) ==
    IF k = 0 THEN {{}}
    ELSE {S \cup {c} : <<S, c>> \in
             UNION {{<<T, d>> : d \in Frontier(T)} : T \in TreesOfSize(k - 1)}}

\* the sequences of n trees with at most budget internal nodes in all
RECURSIVE ForestsOf(_, _)
ForestsOf(n, budget) ==
    IF n = 0 THEN {<<>>}
    ELSE UNION {{<<t>> \o f : t \in TreesOfSize(k), f \in ForestsOf(n - 1, budget - k)}
                  : k \in 0..budget}

Forests == UNION {ForestsOf(n, MaxNodes) : n \in 1..MaxTrees}

\* column names: plain ones, one that contains the word the translator looks
\* for in prediction rows, and one with a spaced hyphen
FeatureLists ==
    { << <<"f">>, <<"g">> >>,
      << <<"f">>, <<"p", "c", "l", "a", "s", "s">> >>,
      << <<"p", "c", "l", "a", "s", "s">>, <<"g">> >>,
      << <<"g">>, <<"a", " ", "-", " ", "b">> >> }

\* split thresholds in millionths: -1.25, 123.456789, 0.5
Thresholds == <<-1250000, 123456789, 500000>>

NumClasses == 3

\* tree_.feature[node], tree_.threshold[node] and the majority class of node
FeatureOf(feats, node) == feats[(node % Len(feats)) + 1]

ThresholdOf(node) == Thresholds[((node - 1) % Len(Thresholds)) + 1]

ClassOf(node) == IntToStr(node % NumClasses)

(***************************************************************************)
(* sklearn.tree.export_text(tree, feature_names, max_depth, decimals=6,    *)
(* spacing) for a classifier, as get_rules calls it.  The trees of the     *)
(* model are far shallower than max_depth, so no branch is truncated.      *)
(***************************************************************************)
RECURSIVE Flatten(_)
Flatten(ss) == IF Len(ss) = 0 THEN <<>> ELSE ss[1] \o Flatten(Tail(ss))

\* ("|" + " " * sp) * depth, its last sp columns replaced by "-" * sp
Indent(sp, depth) ==
    LET full == Flatten([d \in 1..depth |-> <<"|">> \o Repeat(" ", sp)])
    IN  Slice(full, 1, Len(full) - sp) \o Repeat("-", sp)

\* the rows of the report for the subtree at node: the text of each row and,
\* beside it, which node and which kind of row it is
RECURSIVE PrintTreeRecurse(_, _, _, _, _)
PrintTreeRecurse(tree, feats, sp, node, depth) ==
    IF node \in tree
    THEN LET name == FeatureOf(feats, node)
             thr  == FormatFixed(ThresholdOf(node))
             row(op, kind) ==
                 [row |-> Indent(sp, depth) \o <<" ">> \o name \o op \o thr \o <<NL>>,
                  kind |-> kind, node |-> node, depth |-> depth]
         IN  <<row(<<" ", "<", "=", " ">>, "le")>>
             \o PrintTreeRecurse(tree, feats, sp, 2 * node, depth + 1)
             \o <<row(<<" ", ">", " ", " ">>, "gt")>>
             \o PrintTreeRecurse(tree, feats, sp, 2 * node + 1, depth + 1)
    ELSE << [row |-> Indent(sp, depth)
                     \o <<" ", "c", "l", "a", "s", "s", ":", " ">>
                     \o ClassOf(node) \o <<NL>>,
             kind |-> "leaf", node |-> node, depth |-> depth] >>

Report(tree, feats, sp) == PrintTreeRecurse(tree, feats, sp, 1, 1)

ExportText(tree, feats, sp) ==
    LET rep == Report(tree, feats, sp)
    IN  Flatten([r \in 1..Len(rep) |-> rep[r].row])


(***************************************************************************)
(* State.                                                                  *)
(***************************************************************************)
VARIABLES
    forest,                 \* rf: the fitted trees
    features,               \* the feature names handed to get_rules
    i,                      \* driver loop: index of the next tree
    sas_tree_rules,         \* driver loop: the blocks returned so far
    pc,                     \* "idle", "translate", "loop", "returned", "raised"
    entry,                  \* the function the caller invoked
    tree_id,                \* parameter
    spacing,                \* parameter
    exported,               \* whether export_text was called by this call
    text,                   \* parameter of translate_text_to_sas
    splitted_rules,         \* text.split('\n')
    pos,                    \* rows of splitted_rules consumed by the for loop
    dict_space_count,       \* str(n_spaces) -> rows counted at that indentation
    current_elseif_count,   \* indentations of the open ELSE IF blocks
    sas_rules,              \* the text built so far
    error,                  \* message of the exception raised, if any
    steps                   \* what each iteration of the for loop did

vars == <<forest, features, i, sas_tree_rules, pc, entry, tree_id, spacing,
          exported, text, splitted_rules, pos, dict_space_count,
          current_elseif_count, sas_rules, error, steps>>

driver == <<forest, features, i, sas_tree_rules>>

locals == <<splitted_rules, pos, dict_space_count, current_elseif_count,
            sas_rules, steps>>

\* sas_table argument of the driver
SasTable == <<"D", "A", "T", "A", "S", "E", "T">>

NoText == <<>>

EmptyDict == [key \in {} |-> 0]

SpacingError ==
    <<"s", "p", "a", "c", "i", "n", "g", " ", "m", "u", "s", "t", " ",
      "b", "e", " ", ">", " ", "1">>

ValueError == <<"V", "a", "l", "u", "e", "E", "r", "r", "o", "r">>

\* spacing=2 in the signatures of get_rules and translate_text_to_sas
DefaultSpacing == 2

Fresh ==
    /\ features \in FeatureLists
    /\ i = 0
    /\ sas_tree_rules = <<>>
    /\ pc = "idle"
    /\ entry = "none"
    /\ tree_id = 0
    /\ spacing = DefaultSpacing
    /\ exported = FALSE
    /\ text = NoText
    /\ splitted_rules = <<>>
    /\ pos = 0
    /\ dict_space_count = EmptyDict
    /\ current_elseif_count = <<>>
    /\ sas_rules = NoText
    /\ error = NoText
    /\ steps = <<>>

\* one fitted tree, translated by one call
Init == forest \in ForestsOf(1, MaxNodes) /\ Fresh

\* the forest example_sas_rules.py iterates over
InitDriver == forest \in Forests /\ Fresh

(***************************************************************************)
(* get_rules, up to its call of translate_text_to_sas.                     *)
(***************************************************************************)
\* the check written one too low
InvalidSpacingBelowOne(sp) == sp < 1

InvalidSpacing(sp) == sp < 2

GetRules(sp) ==
    /\ pc = "idle"
    /\ i < Len(forest)
    /\ entry' = "get_rules"
    /\ tree_id' = i
    /\ spacing' = sp
    /\ IF InvalidSpacing(sp)
       THEN /\ pc' = "raised"
            /\ error' = SpacingError
            /\ exported' = FALSE
            /\ text' = NoText
       ELSE /\ pc' = "translate"
            /\ exported' = TRUE
            /\ text' = ExportText(forest[i + 1], features, sp - 1)
            /\ error' = NoText
    /\ UNCHANGED <<driver, locals>>

(***************************************************************************)
(* translate_text_to_sas called by itself on a report the caller exported. *)
(***************************************************************************)
\* translate_text_to_sas with the check of get_rules repeated in it
TranslateTextToSasChecked(sp, esp) ==
    /\ pc = "idle"
    /\ i < Len(forest)
    /\ entry' = "translate_text_to_sas"
    /\ tree_id' = i
    /\ spacing' = sp
    /\ exported' = FALSE
    /\ text' = ExportText(forest[i + 1], features, esp)
    /\ IF InvalidSpacing(sp)
       THEN pc' = "raised" /\ error' = SpacingError
       ELSE pc' = "translate" /\ error' = NoText
    /\ UNCHANGED <<driver, locals>>

\* the spacing export_text is given for a report meant for spacing sp; it
\* accepts none below 1
ExportSpacing(sp) == IF sp - 1 < 1 THEN 1 ELSE sp - 1

TranslateTextToSas(sp, esp) ==
    /\ pc = "idle"
    /\ i < Len(forest)
    /\ entry' = "translate_text_to_sas"
    /\ tree_id' = i
    /\ spacing' = sp
    /\ pc' = "translate"
    /\ exported' = FALSE
    /\ text' = ExportText(forest[i + 1], features, esp)
    /\ error' = NoText
    /\ UNCHANGED <<driver, locals>>

(***************************************************************************)
(* get_front_add and one iteration of the for loop of                      *)
(* translate_text_to_sas.                                                  *)
(***************************************************************************)
EndLine == <<"E", "N", "D", ";", NL>>

GetFrontAdd(count, n_spaces) ==
    IF count % 2 = 0
    THEN EndLine \o Repeat(" ", n_spaces + 2) \o <<"E", "L", "S", "E", " ", "I", "F", " ">>
    ELSE <<"I", "F", " ">>

\* an if in place of the while: at most one entry is popped
PopDeeperOnce(stack, n_spaces) ==
    IF Len(stack) > 0 /\ n_spaces < stack[Len(stack)]
    THEN SubSeq(stack, 1, Len(stack) - 1)
    ELSE stack

\* the while loop: entries are popped while n_spaces is below the last one
RECURSIVE PopDeeper(_, _)
PopDeeper(stack, n_spaces) ==
    IF Len(stack) > 0 /\ n_spaces < stack[Len(stack)]
    THEN PopDeeper(SubSeq(stack, 1, Len(stack) - 1), n_spaces)
    ELSE stack

\* the count without the decrement for rows that hold the word class
CountRowKeepsLeaf(dict, key, is_class) ==
    [k \in DOMAIN dict \cup {key} |->
        IF k = key
        THEN (IF key \in DOMAIN dict THEN dict[key] + 1 ELSE 1)
        ELSE dict[k]]

\* the counter after the row at key was counted, and uncounted again when the
\* row holds the word class
CountRow(dict, key, is_class) ==
    LET counted == [k \in DOMAIN dict \cup {key} |->
                       IF k = key
                       THEN (IF key \in DOMAIN dict THEN dict[key] + 1 ELSE 1)
                       ELSE dict[k]]
    IN  IF is_class THEN [counted EXCEPT ![key] = @ - 1] ELSE counted

\* the push without the test for class
PushElseIfOnLeaf(stack, front_add, is_class, n_spaces) ==
    IF Contains(front_add, <<"E", "L", "S", "E">>) THEN Append(stack, n_spaces) ELSE stack

\* the push after the pops
PushElseIf(stack, front_add, is_class, n_spaces) ==
    IF Contains(front_add, <<"E", "L", "S", "E">>) /\ ~is_class
    THEN Append(stack, n_spaces)
    ELSE stack

\* line 67: trailing whitespace removed, then | and - turned into spaces
Normalize(raw) == ReplaceChar(ReplaceChar(RStrip(raw), "|", " "), "-", " ")

\* lines 91-93, reached when the row holds < or >: the last word is the
\* threshold, the prefix goes after each run of n_spaces spaces
CondStatement(line, n_spaces, front_add) ==
    LET parts == RSplit1(line)
    IN  Replace(parts[1], Repeat(" ", n_spaces), Repeat(" ", n_spaces) \o front_add)
        \o <<" ">> \o FormatG(ParseFloat(parts[2])) \o <<" ", "T", "H", "E", "N", " ", "D", "O", ";">>

\* whether lines 91-93 raise: no two words to unpack, or no number
CondFails(line) ==
    LET parts == RSplit1(line) IN Len(parts) # 2 \/ ~IsFloatLiteral(parts[2])

\* the assignment without its closing semicolon
LeafStatementNoSemicolon(line, tid) ==
    IF Contains(line, <<"c", "l", "a", "s", "s">>)
    THEN Replace(line, <<"c", "l", "a", "s", "s", ":">>, <<"P", "R", "E", "D", "I", "C", "T", "E", "D", "_", "V", "A", "L", "U", "E", "_">> \o IntToStr(tid + 1) \o <<" ", "=">>)
    ELSE line

\* lines 95-97: the assignment made of a row that holds the word class
LeafStatement(line, tid) ==
    IF Contains(line, <<"c", "l", "a", "s", "s">>)
    THEN Replace(line, <<"c", "l", "a", "s", "s", ":">>, <<"P", "R", "E", "D", "I", "C", "T", "E", "D", "_", "V", "A", "L", "U", "E", "_">> \o IntToStr(tid + 1) \o <<" ", "=">>) \o <<";">>
    ELSE line

\* the statement put in front of the pending 'END;' lines
AppendEnds(add_end_front, line) == line \o add_end_front

\* line = add_end_front + line
PrependEnds(add_end_front, line) == add_end_front \o line

\* frame: [dict, stack, out]; the result adds what the iteration did
LineStep(frame, raw, tid, sp) ==
    LET line0     == Normalize(raw)
        n_spaces  == LeadingSpaces(line0)
        key       == IntToStr(n_spaces)
        is_class  == Contains(line0, <<"c", "l", "a", "s", "s">>)
        dict      == CountRow(frame.dict, key, is_class)
        front_add == GetFrontAdd(dict[key], n_spaces)
        popped    == PopDeeper(frame.stack, n_spaces)
        npops     == Len(frame.stack) - Len(popped)
        add_end_front == Flatten([k \in 1..npops |-> EndLine])
        stack     == PushElseIf(popped, front_add, is_class, n_spaces)
        is_cond   == Contains(line0, <<"<">>) \/ Contains(line0, <<">">>)
        failed    == is_cond /\ CondFails(line0)
        line1     == IF is_cond /\ ~failed
                     THEN CondStatement(line0, n_spaces, front_add)
                     ELSE line0
        line2     == LeafStatement(line1, tid)
        line3     == PrependEnds(add_end_front, line2)
    IN  [dict   |-> dict,
         stack  |-> stack,
         failed |-> failed,
         out    |-> IF failed THEN frame.out
                    ELSE frame.out \o Repeat(" ", sp) \o line3 \o <<NL>>,
         step   |-> [n_spaces |-> n_spaces, count |-> dict[key],
                     front_add |-> front_add, npops |-> npops,
                     before |-> frame.stack, after |-> stack,
                     own |-> IF failed THEN NoText ELSE line2,
                     emitted |-> IF failed THEN NoText ELSE line3]]

(***************************************************************************)
(* translate_text_to_sas.                                                  *)
(***************************************************************************)
Header(tid) ==
    <<"D", "A", "T", "A", " ", "D", "E", "C", "I", "S", "I", "O", "N", "_", "T", "R", "E", "E", "_">> \o IntToStr(tid + 1) \o <<";", NL>>
    \o <<"S", "E", "T", " ">> \o SasTable \o <<";", NL>>

\* the counter and the stack kept from the call before, as module-level
\* state would be
TranslateStartKeepsState ==
    /\ pc = "translate"
    /\ pc' = "loop"
    /\ sas_rules' = Header(tree_id)
    /\ splitted_rules' = Split(text, NL)
    /\ pos' = 0
    /\ steps' = <<>>
    /\ UNCHANGED <<driver, entry, tree_id, spacing, exported, text, error,
                   dict_space_count, current_elseif_count>>

\* the loop that starts at the second row
TranslateStartSkipsFirst ==
    /\ pc = "translate"
    /\ pc' = "loop"
    /\ sas_rules' = Header(tree_id)
    /\ splitted_rules' = Split(text, NL)
    /\ pos' = 1
    /\ dict_space_count' = EmptyDict
    /\ current_elseif_count' = <<>>
    /\ steps' = <<>>
    /\ UNCHANGED <<driver, entry, tree_id, spacing, exported, text, error>>

\* lines 59-64: the header and the empty counter and stack
TranslateStart ==
    /\ pc = "translate"
    /\ pc' = "loop"
    /\ sas_rules' = Header(tree_id)
    /\ splitted_rules' = Split(text, NL)
    /\ pos' = 0
    /\ dict_space_count' = EmptyDict
    /\ current_elseif_count' = <<>>
    /\ steps' = <<>>
    /\ UNCHANGED <<driver, entry, tree_id, spacing, exported, text, error>>

\* lines 66-99: one row
LoopLine ==
    /\ pc = "loop"
    /\ pos < Len(splitted_rules)
    /\ LET r == LineStep([dict |-> dict_space_count,
                          stack |-> current_elseif_count,
                          out |-> sas_rules],
                         splitted_rules[pos + 1], tree_id, spacing)
       IN  /\ dict_space_count' = r.dict
           /\ current_elseif_count' = r.stack
           /\ sas_rules' = r.out
           /\ steps' = Append(steps, r.step)
           /\ pos' = pos + 1
           /\ pc' = IF r.failed THEN "raised" ELSE "loop"
           /\ error' = IF r.failed THEN ValueError ELSE error
    /\ UNCHANGED <<driver, entry, tree_id, spacing, exported, text, splitted_rules>>

\* the return without the trim of the last line separator
TranslateReturnNoTrim ==
    /\ pc = "loop"
    /\ pos = Len(splitted_rules)
    /\ pc' = "returned"
    /\ sas_rules' = sas_rules \o <<"R", "U", "N", ";">>
    /\ UNCHANGED <<driver, entry, tree_id, spacing, exported, text, error,
                   splitted_rules, pos, dict_space_count, current_elseif_count,
                   steps>>

\* lines 100-102
TranslateReturn ==
    /\ pc = "loop"
    /\ pos = Len(splitted_rules)
    /\ pc' = "returned"
    /\ sas_rules' = SubSeq(sas_rules, 1, Len(sas_rules) - 1) \o <<"R", "U", "N", ";">>
    /\ UNCHANGED <<driver, entry, tree_id, spacing, exported, text, error,
                   splitted_rules, pos, dict_space_count, current_elseif_count,
                   steps>>

(***************************************************************************)
(* The driver: example_sas_rules.py keeps each returned block and moves to *)
(* the next tree.                                                          *)
(***************************************************************************)
Store ==
    /\ pc = "returned"
    /\ sas_tree_rules' = Append(sas_tree_rules, sas_rules)
    /\ i' = i + 1
    /\ pc' = "idle"
    /\ UNCHANGED <<forest, features, entry, tree_id, spacing, exported, text,
                   error, locals>>

Next ==
    \/ \E sp \in 0..MaxSpacing : GetRules(sp)
    \/ \E sp \in 0..MaxSpacing : TranslateTextToSas(sp, ExportSpacing(sp))
    \/ TranslateStart
    \/ LoopLine
    \/ TranslateReturn
    \/ Store

Spec == Init /\ [][Next]_vars

\* example_sas_rules.py: get_rules with the default spacing for every tree
NextDriver ==
    \/ GetRules(DefaultSpacing)
    \/ TranslateStart
    \/ LoopLine
    \/ TranslateReturn
    \/ Store

SpecDriver == InitDriver /\ [][NextDriver]_vars

(***************************************************************************)
(* translate_text_to_sas called on any text: rows of a rendering and rows  *)
(* that are none.  The interpreter runs the call to its end, so the steps  *)
(* of the call are taken as long as one is possible.                       *)
(***************************************************************************)
MaxRows == 3

\* rows a text is made of: conditions and a leaf as export_text writes them,
\* a condition with a word for its threshold, a lone operator, and a row
\* that is neither condition nor leaf
Lines ==
    {<<"|", "-", " ", "f", " ", "<", "=", " ", "1">>,
     <<"|", "-", " ", "f", " ", ">", " ", " ", "1">>,
     <<"|", " ", "|", "-", " ", "c", "l", "a", "s", "s", ":", " ", "0">>,
     <<"f", " ", ">", " ", "x">>,
     <<"<">>,
     <<"h", "e", "l", "l", "o">>}

Texts == UNION {[1..k -> Lines] : k \in 0..MaxRows}

\* the text of the rows, each ended by a line separator
JoinLines(rows) == Flatten([k \in 1..Len(rows) |-> rows[k] \o <<NL>>])

InitText == forest = << {} >> /\ Fresh /\ features = << <<"f">>, <<"g">> >>

TranslateText(rows) ==
    /\ pc = "idle"
    /\ entry' = "translate_text_to_sas"
    /\ tree_id' = i
    /\ spacing' = DefaultSpacing
    /\ pc' = "translate"
    /\ exported' = FALSE
    /\ text' = JoinLines(rows)
    /\ error' = NoText
    /\ UNCHANGED <<driver, locals>>

NextText ==
    \/ \E rows \in Texts : TranslateText(rows)
    \/ TranslateStart
    \/ LoopLine
    \/ TranslateReturn

\* the for loop moves on to the next row: the step LoopLine takes, named
\* by what it does to the row index
NextRow == pc = "loop" /\ pos < Len(splitted_rules) /\ pos' = pos + 1

SpecText ==
    /\ InitText
    /\ [][NextText]_vars
    /\ WF_vars(\E rows \in Texts : TranslateText(rows))
    /\ WF_vars(TranslateStart)
    /\ WF_pos(NextRow)
    /\ WF_vars(TranslateReturn)

(***************************************************************************)
(* Reading the inputs and the emitted text back, for the properties.       *)
(***************************************************************************)
\* the tree of the current call, and the rows export_text made of it
CurTree == forest[tree_id + 1]

CurExportSpacing ==
    IF entry = "get_rules" THEN spacing - 1 ELSE ExportSpacing(spacing)

CurReport == Report(CurTree, features, CurExportSpacing)

\* rows of the report that are conditions / leaves of the tree
IsCondRow(rep, r) == rep[r].kind # "leaf"

\* how many condition rows the report has up to row r
CondOrdinal(rep, r) == Cardinality({k \in 1..r : IsCondRow(rep, k)})

\* the node at the given distance above node
RECURSIVE Ancestor(_, _)
Ancestor(node, up) == IF up = 0 THEN node ELSE Ancestor(node \div 2, up - 1)

\* the condition row of the branch that leads from parent to child
BranchRow(rep, child) ==
    CHOOSE r \in 1..Len(rep) :
        /\ rep[r].node = child \div 2
        /\ rep[r].kind = (IF child % 2 = 0 THEN "le" ELSE "gt")

\* the conditions on the way from the root to the leaf at row r, outermost
\* first, each named by its ordinal among the condition rows
LeafPath(rep, r) ==
    LET d == rep[r].depth - 1
    IN  [k \in 1..d |-> CondOrdinal(rep, BranchRow(rep, Ancestor(rep[r].node, d - k)))]

\* what the tree asks for: the path of every leaf, in report order
RECURSIVE TreePathsFrom(_, _)
TreePathsFrom(rep, r) ==
    IF r > Len(rep) THEN <<>>
    ELSE (IF IsCondRow(rep, r) THEN <<>> ELSE <<LeafPath(rep, r)>>)
         \o TreePathsFrom(rep, r + 1)

TreePaths(rep) == TreePathsFrom(rep, 1)

\* s.strip()
Strip(s) ==
    LET e == LastNonWs(s, Len(s))
        b == CHOOSE k \in 1..(e + 1) :
                 /\ k <= e => s[k] \notin Whitespace
                 /\ \A m \in 1..(k - 1) : s[m] \in Whitespace
    IN  Slice(s, b, e)

StartsWith(s, pat) == OccursAt(s, pat, 1)

EndsWith(s, pat) == Len(s) >= Len(pat) /\ OccursAt(s, pat, Len(s) - Len(pat) + 1)

\* the statements of a block: the pieces between semicolons
Statements(block) ==
    LET raw == Split(block, ";") IN [k \in 1..Len(raw) |-> Strip(raw[k])]

IsOpener(stmt) ==
    /\ StartsWith(stmt, <<"I", "F", " ">>) \/ StartsWith(stmt, <<"E", "L", "S", "E", " ", "I", "F", " ">>)
    /\ EndsWith(stmt, <<" ", "T", "H", "E", "N", " ", "D", "O">>)

IsEnd(stmt) == stmt = <<"E", "N", "D">>

IsAssignment(stmt) == StartsWith(stmt, <<"P", "R", "E", "D", "I", "C", "T", "E", "D", "_", "V", "A", "L", "U", "E", "_">>)

\* executes the DO/END pairing of the statements from k on.  open: the
\* ordinals of the openers whose block is open; seen: openers met so far;
\* paths: the open blocks at each assignment; ok: no END without a block
RECURSIVE Pairing(_, _, _)
Pairing(stmts, k, acc) ==
    IF k > Len(stmts) THEN acc
    ELSE LET s == stmts[k]
         IN  Pairing(stmts, k + 1,
                 IF IsOpener(s)
                 THEN [acc EXCEPT !.open = Append(@, acc.seen + 1), !.seen = @ + 1]
                 ELSE IF IsEnd(s)
                 THEN IF Len(acc.open) = 0 THEN [acc EXCEPT !.ok = FALSE]
                      ELSE [acc EXCEPT !.open = SubSeq(@, 1, Len(@) - 1)]
                 ELSE IF IsAssignment(s)
                 THEN [acc EXCEPT !.paths = Append(@, acc.open)]
                 ELSE acc)

BlockPairing(block) ==
    Pairing(Statements(block), 1,
            [open |-> <<>>, seen |-> 0, paths |-> <<>>, ok |-> TRUE])

\* the block nests the assignments exactly as the tree nests its leaves
SameNesting(block, rep) ==
    LET p == BlockPairing(block)
    IN  /\ p.ok
        /\ p.open = <<>>
        /\ p.seen = CondOrdinal(rep, Len(rep))
        /\ p.paths = TreePaths(rep)

Returned == pc = "returned"

(***************************************************************************)
(* C1: for every rendering of a binary decision tree the emitted block     *)
(* encloses every leaf assignment in exactly the DO blocks opened by the   *)
(* condition rows on that leaf's root-to-leaf path, each THEN DO matched   *)
(* with its END.                                                           *)
(***************************************************************************)
NestingMatchesTree == Returned => SameNesting(sas_rules, CurReport)

\* the same for trees whose feature names are plain words
PlainNames == features = << <<"f">>, <<"g">> >>

PlainNestingMatchesTree == (Returned /\ PlainNames) => SameNesting(sas_rules, CurReport)

\* how many times pat is written in s
CountOf(s, pat) == Cardinality({k \in 1..Len(s) : OccursAt(s, pat, k)})

(***************************************************************************)
(* C2: balanced blocks.  When translate_text_to_sas has finished the       *)
(* rendering of a binary decision tree, the block holds as many openers    *)
(* (IF ... THEN DO; and ELSE IF ... THEN DO;) as END; terminators, and     *)
(* current_elseif_count is empty.                                          *)
(***************************************************************************)
BalancedBlocks ==
    Returned =>
        /\ CountOf(sas_rules, <<"T", "H", "E", "N", " ", "D", "O", ";">>) = CountOf(sas_rules, <<"E", "N", "D", ";">>)
        /\ current_elseif_count = <<>>

\* the part of C2 that holds for every feature name: the stack is drained
StackDrained == Returned => current_elseif_count = <<>>

(***************************************************************************)
(* The rows processed so far, set against the rows of the report.  The     *)
(* segment after the last line separator is the only row beyond the        *)
(* report; it is empty and no leaf.                                        *)
(***************************************************************************)
InCall == pc \in {"loop", "returned"}

\* row r is a leaf of the tree
IsLeafRow(rep, r) == r <= Len(rep) /\ rep[r].kind = "leaf"

\* the role get_front_add chose for a row
RoleOf(step) == IF Contains(step.front_add, <<"E", "L", "S", "E">>) THEN "ELSE IF" ELSE "IF"

\* how many of the rows 1..r that are no leaves have the indentation of row r
NonLeafSeen(rep, r) ==
    Cardinality({k \in 1..r : ~IsLeafRow(rep, k)
                              /\ steps[k].n_spaces = steps[r].n_spaces})

(***************************************************************************)
(* C3: depth-parity alternation.  Within one translation the k-th row at   *)
(* an indentation that is no leaf is given the role IF when k is odd and   *)
(* END; ELSE IF when k is even, whatever leaf rows came in between.        *)
(***************************************************************************)
DepthParityAlternation ==
    InCall =>
        \A r \in 1..Len(steps) :
            (r <= Len(CurReport) /\ IsCondRow(CurReport, r)) =>
                RoleOf(steps[r]) =
                    (IF NonLeafSeen(CurReport, r) % 2 = 1 THEN "IF" ELSE "ELSE IF")

\* the same for trees whose feature names are plain words
PlainDepthParityAlternation == PlainNames => DepthParityAlternation

(***************************************************************************)
(* C4: leaf transparency.  Processing a leaf row pushes nothing on         *)
(* current_elseif_count, writes no IF or ELSE IF opener and not the        *)
(* END; of the role prefix; the END; lines written with a leaf row are     *)
(* exactly those of the entries popped because they are deeper.            *)
(***************************************************************************)
LeafTransparency ==
    InCall =>
        \A r \in 1..Len(steps) :
            IsLeafRow(CurReport, r) =>
                /\ steps[r].after = PopDeeper(steps[r].before, steps[r].n_spaces)
                /\ CountOf(steps[r].emitted, <<"I", "F", " ">>) = 0
                /\ CountOf(steps[r].emitted, <<"T", "H", "E", "N", " ", "D", "O", ";">>) = 0
                /\ CountOf(steps[r].emitted, <<"E", "N", "D", ";">>) = steps[r].npops

\* a leaf row that was given the ELSE IF role while a block was open
LeafTransparencyWitness ==
    /\ InCall
    /\ \E r \in 1..Len(steps) :
           /\ IsLeafRow(CurReport, r)
           /\ RoleOf(steps[r]) = "ELSE IF"
           /\ Len(steps[r].before) > 0
           /\ CountOf(steps[r].emitted, <<"P", "R", "E", "D", "I", "C", "T", "E", "D", "_", "V", "A", "L", "U", "E", "_">>) = 1

(***************************************************************************)
(* C5: get_rules called with spacing < 2 raises the spacing error before   *)
(* the tree is rendered and before any row is translated; no text is       *)
(* produced or returned.                                                   *)
(***************************************************************************)
GetRulesRejectsSmallSpacing ==
    (entry = "get_rules" /\ spacing < 2) =>
        /\ pc = "raised"
        /\ error = SpacingError
        /\ ~exported
        /\ text = NoText
        /\ steps = <<>>
        /\ sas_rules = NoText
        /\ sas_tree_rules = <<>>

GetRulesRejectsWitness == entry = "get_rules" /\ spacing < 2 /\ pc = "raised"

(***************************************************************************)
(* C6: translate_text_to_sas itself, called with spacing < 2, fails with   *)
(* the invalid-configuration error instead of returning a block.           *)
(***************************************************************************)
TranslateRejectsSmallSpacing ==
    (entry = "translate_text_to_sas" /\ spacing < 2) => ~Returned

\* how many leaves the tree of the report has
NumLeaves(rep) == Len(rep) - CondOrdinal(rep, Len(rep))

\* C6 as amended: translate_text_to_sas does not look at the value of
\* spacing.  Called with spacing < 2 it raises nothing and returns the whole
\* block: header, one row per row of the report, each behind spacing
\* spaces, and RUN;.  Only get_rules rejects spacing < 2.
TranslateAcceptsSmallSpacing ==
    (entry = "translate_text_to_sas" /\ spacing < 2) =>
        /\ pc # "raised"
        /\ error = NoText
        /\ Returned =>
              /\ StartsWith(sas_rules, Header(tree_id) \o Repeat(" ", spacing))
              /\ EndsWith(sas_rules, <<"R", "U", "N", ";">>)
              /\ CountOf(sas_rules, <<"P", "R", "E", "D", "I", "C", "T", "E", "D", "_", "V", "A", "L", "U", "E", "_">>) = NumLeaves(CurReport)
              /\ Len(steps) = Len(CurReport) + 1

TranslateAcceptsWitness ==
    /\ entry = "translate_text_to_sas"
    /\ spacing < 2
    /\ Returned
    /\ CurTree # {}

(***************************************************************************)
(* One translation on its own: the for loop run on a frame that starts     *)
(* with the header, an empty counter and an empty stack.                   *)
(***************************************************************************)
RECURSIVE RunRows(_, _, _, _, _)
RunRows(frame, rows, k, tid, sp) ==
    IF k > Len(rows) THEN frame
    ELSE LET r == LineStep(frame, rows[k], tid, sp)
         IN  RunRows([dict |-> r.dict, stack |-> r.stack, out |-> r.out],
                     rows, k + 1, tid, sp)

TranslateAlone(txt, tid, sp) ==
    LET last == RunRows([dict |-> EmptyDict, stack |-> <<>>, out |-> Header(tid)],
                        Split(txt, NL), 1, tid, sp)
    IN  SubSeq(last.out, 1, Len(last.out) - 1) \o <<"R", "U", "N", ";">>

\* the name of the output variable of the tree with identifier tid
OutputVariable(tid) == <<"P", "R", "E", "D", "I", "C", "T", "E", "D", "_", "V", "A", "L", "U", "E", "_">> \o IntToStr(tid + 1) \o <<" ", "=">>

(***************************************************************************)
(* C7: determinism and independence of calls.  The counter and the stack   *)
(* are empty when a call starts its loop; the block a call returns is the  *)
(* block its text, tree_id and spacing give on their own, whatever was     *)
(* translated before; and the block kept for tree j assigns                *)
(* PREDICTED_VALUE_<j> and no other tree's variable.                       *)
(***************************************************************************)
CallsAreIndependent ==
    /\ (pc = "loop" /\ pos = 0) =>
           (dict_space_count = EmptyDict /\ current_elseif_count = <<>>)
    /\ Returned => sas_rules = TranslateAlone(text, tree_id, spacing)
    /\ pc = "idle" =>
           /\ Len(sas_tree_rules) = i
           /\ i > 0 => sas_tree_rules[i] = sas_rules
           /\ \A j \in 1..i, k \in 1..Len(forest) :
                  Contains(sas_tree_rules[j], OutputVariable(k - 1)) <=> j = k

\* two trees with conditions were translated one after the other
CallsAreIndependentWitness ==
    /\ pc = "idle"
    /\ Len(sas_tree_rules) = 2
    /\ forest[1] # {}
    /\ forest[2] # {}

(***************************************************************************)
(* C8: after every processed row of a tree rendering the entries of        *)
(* current_elseif_count increase strictly from bottom to top.              *)
(***************************************************************************)
StrictlyIncreasing(stack) ==
    \A a, b \in 1..Len(stack) : a < b => stack[a] < stack[b]

StackStrictlyIncreasing ==
    /\ StrictlyIncreasing(current_elseif_count)
    /\ \A r \in 1..Len(steps) : StrictlyIncreasing(steps[r].after)

\* two blocks were open and a row above both has closed them and opened its own
StackIncreasingWitness ==
    /\ InCall
    /\ \E r \in 1..Len(steps) :
           /\ Len(steps[r].before) = 2
           /\ steps[r].npops = 2
           /\ Len(steps[r].after) = 1

(***************************************************************************)
(* C9: after any prefix of the rows the counter kept for an indentation    *)
(* is the number of rows seen so far at that indentation that are no       *)
(* leaves (so a leaf row leaves every count as it was).                    *)
(***************************************************************************)
CounterCountsNonLeafRows ==
    InCall =>
        \A r \in 1..Len(steps) :
            /\ steps[r].count = NonLeafSeen(CurReport, r)
            /\ r = Len(steps) =>
                   dict_space_count[IntToStr(steps[r].n_spaces)] = steps[r].count

\* the same for trees whose feature names are plain words
PlainCounterCountsNonLeafRows == PlainNames => CounterCountsNonLeafRows

(***************************************************************************)
(* C10: scenario A.  For a tree that is a single leaf the block is the     *)
(* header, one PREDICTED_VALUE assignment and RUN;, with no IF, no ELSE IF *)
(* and no END;.                                                            *)
(***************************************************************************)
SingleLeafBlock ==
    (Returned /\ CurTree = {}) =>
        Statements(sas_rules) =
            << <<"D", "A", "T", "A", " ", "D", "E", "C", "I", "S", "I", "O", "N", "_", "T", "R", "E", "E", "_">> \o IntToStr(tree_id + 1),
               <<"S", "E", "T", " ">> \o SasTable,
               <<"P", "R", "E", "D", "I", "C", "T", "E", "D", "_", "V", "A", "L", "U", "E", "_">> \o IntToStr(tree_id + 1) \o <<" ", "=", " ">> \o ClassOf(1),
               <<"R", "U", "N">>,
               <<>> >>

SingleLeafWitness == Returned /\ CurTree = {} /\ entry = "get_rules"

\* the statements of the emitted block after the DATA and SET statements
Body(block) == LET s == Statements(block) IN SubSeq(s, 3, Len(s))

IsIfOpener(stmt) == IsOpener(stmt) /\ StartsWith(stmt, <<"I", "F", " ">>)

IsElseIfOpener(stmt) == IsOpener(stmt) /\ StartsWith(stmt, <<"E", "L", "S", "E", " ", "I", "F", " ">>)

\* the body of a tree that is one condition with two leaves
StumpBody(b) ==
    /\ Len(b) = 8
    /\ IsIfOpener(b[1])
    /\ IsAssignment(b[2])
    /\ IsEnd(b[3])
    /\ IsElseIfOpener(b[4])
    /\ IsAssignment(b[5])
    /\ IsEnd(b[6])
    /\ b[7] = <<"R", "U", "N">>
    /\ b[8] = <<>>

(***************************************************************************)
(* C11: scenario B.  For a tree whose root is the only condition and has   *)
(* two leaf children the body is, in order: IF cond THEN DO; assignment;   *)
(* END; ELSE IF cond2 THEN DO; assignment2; and then exactly one further   *)
(* END; immediately before the final RUN;.                                 *)
(***************************************************************************)
StumpShape == (Returned /\ CurTree = {1}) => StumpBody(Body(sas_rules))

\* the same for trees whose feature names are plain words
PlainStumpShape == (Returned /\ CurTree = {1} /\ PlainNames) => StumpBody(Body(sas_rules))

PlainStumpWitness == Returned /\ CurTree = {1} /\ PlainNames /\ StumpBody(Body(sas_rules))

\* the opener that each END of the statements closes, in the order of the
\* ENDs; openers are named by their ordinal, 0 stands for no open block
RECURSIVE ClosedFrom(_, _, _, _)
ClosedFrom(stmts, k, open, seen) ==
    IF k > Len(stmts) THEN <<>>
    ELSE IF IsOpener(stmts[k])
    THEN ClosedFrom(stmts, k + 1, Append(open, seen + 1), seen + 1)
    ELSE IF IsEnd(stmts[k])
    THEN IF Len(open) = 0
         THEN <<0>> \o ClosedFrom(stmts, k + 1, open, seen)
         ELSE <<open[Len(open)]>> \o ClosedFrom(stmts, k + 1, SubSeq(open, 1, Len(open) - 1), seen)
    ELSE ClosedFrom(stmts, k + 1, open, seen)

Closed(block) == ClosedFrom(Statements(block), 1, <<>>, 0)

\* the complete tree of three conditions; its report has the rows
\* 1 root <=, 2 left <=, 3 leaf, 4 left >, 5 leaf, 6 root >, 7 right <=,
\* 8 leaf, 9 right >, 10 leaf, and row 11 is the empty last segment
CompleteTree == {1, 2, 3}

\* the two returns from a deepest leaf to the shallowest level: row 6 (the
\* root's second branch after the leaf of row 5) and row 11 (the end of
\* the text after the leaf of row 10).  Each emits exactly two END;, and
\* the END;s of the block close the openers in the order left <=, left >,
\* root <=, right <=, right >, root >: the deeper block before the
\* shallower one at both returns
TwoEndsInnermostFirst ==
    /\ Len(steps) = 11
    /\ CountOf(steps[6].emitted, <<"E", "N", "D", ";">>) = 2
    /\ CountOf(steps[11].emitted, <<"E", "N", "D", ";">>) = 2
    /\ Closed(sas_rules) = <<2, 3, 1, 5, 6, 4>>

(***************************************************************************)
(* C12: scenario C.  For a complete three-level tree (condition,           *)
(* condition, leaf on both branches), when processing moves from the       *)
(* deepest leaf back to the shallowest level exactly two terminators are   *)
(* emitted for that return, and they close the open blocks innermost       *)
(* first: the END; of the deeper block precedes the END; of the shallower. *)
(***************************************************************************)
DeepReturnClosesTwo == (Returned /\ CurTree = CompleteTree) => TwoEndsInnermostFirst

\* the same for trees whose feature names are plain words
PlainDeepReturnClosesTwo ==
    (Returned /\ CurTree = CompleteTree /\ PlainNames) => TwoEndsInnermostFirst

PlainDeepReturnWitness ==
    Returned /\ CurTree = CompleteTree /\ PlainNames /\ TwoEndsInnermostFirst

\* how many of the lowest entries of the stack a row of indentation n
\* leaves alone: up to the highest entry that is <= n
Kept(stack, n) ==
    IF \E k \in 1..Len(stack) : stack[k] <= n
    THEN CHOOSE k \in 1..Len(stack) :
             /\ stack[k] <= n
             /\ \A m \in (k + 1)..Len(stack) : stack[m] > n
    ELSE 0

\* the stack of a step once its pops are done, before its push
AfterPops(step) == SubSeq(step.before, 1, Len(step.before) - step.npops)

(***************************************************************************)
(* C13: pop step.  When a row of indentation n is processed, exactly the   *)
(* stack entries above the highest entry <= n are popped; one END; is      *)
(* emitted per popped entry, all of them before the row's own content      *)
(* (before the END; of the row's own role prefix too); afterwards the      *)
(* stack is empty or its top is <= n, and no entry <= n is popped.         *)
(***************************************************************************)
PopStep ==
    InCall =>
        \A r \in 1..Len(steps) :
            LET s    == steps[r]
                keep == Kept(s.before, s.n_spaces)
                rest == AfterPops(s)
            IN  /\ s.npops = Len(s.before) - keep
                /\ \A k \in 1..Len(s.before) :
                       s.before[k] <= s.n_spaces => (k <= Len(rest) /\ rest[k] = s.before[k])
                /\ rest = <<>> \/ rest[Len(rest)] <= s.n_spaces
                /\ s.after \in {rest, Append(rest, s.n_spaces)}
                /\ s.emitted = Flatten([k \in 1..s.npops |-> EndLine]) \o s.own
                /\ CountOf(s.emitted, <<"E", "N", "D", ";">>) = s.npops + CountOf(s.own, <<"E", "N", "D", ";">>)

\* a row that pops one entry, keeps a lower one and writes an END; of its own
PopStepWitness ==
    /\ InCall
    /\ \E r \in 1..Len(steps) :
           /\ steps[r].npops >= 1
           /\ AfterPops(steps[r]) # <<>>
           /\ CountOf(steps[r].own, <<"E", "N", "D", ";">>) >= 1

\* the step pushed its indentation on the stack, after its pops
Pushed(step) == step.after = Append(AfterPops(step), step.n_spaces)

\* how many of the rows 1..r pushed
Pushes(r) == Cardinality({k \in 1..r : Pushed(steps[k])})

PushRule(rep) ==
    /\ \A r \in 1..Len(steps) :
           /\ Pushed(steps[r]) <=> (RoleOf(steps[r]) = "ELSE IF" /\ ~IsLeafRow(rep, r))
           /\ ~Pushed(steps[r]) => steps[r].after = AfterPops(steps[r])
           /\ (RoleOf(steps[r]) = "ELSE IF" /\ r <= Len(rep) /\ IsCondRow(rep, r))
                  => /\ steps[r].after # <<>>
                     /\ steps[r].after[Len(steps[r].after)] = steps[r].n_spaces
    /\ Returned => Pushes(Len(steps)) = CountOf(sas_rules, <<"E", "L", "S", "E", " ", "I", "F", " ">>)

(***************************************************************************)
(* C14: push step.  The indentation n of a row is pushed exactly when the  *)
(* row is given the ELSE IF role and is no leaf row, and it is pushed      *)
(* after the row's pops; rows with the IF role never push.  So after an    *)
(* ELSE IF condition row of indentation n the top of the stack is n, and   *)
(* the pushes of a translation are as many as the ELSE IF openers emitted. *)
(***************************************************************************)
PushStep == InCall => PushRule(CurReport)

\* the same for trees whose feature names are plain words
PlainPushStep == (InCall /\ PlainNames) => PushRule(CurReport)

PlainPushWitness ==
    /\ Returned
    /\ PlainNames
    /\ Pushes(Len(steps)) >= 2
    /\ PushRule(CurReport)

\* the row holds the word class, which is the translator's test for a leaf row
HasClass(r) == Contains(Normalize(splitted_rules[r]), <<"c", "l", "a", "s", "s">>)

\* row r is the first row of its indentation
FirstAtDepth(r) == \A k \in 1..(r - 1) : steps[k].n_spaces # steps[r].n_spaces

\* the leaf rows processed so far that are the first row of their indentation
LeafFirstRows(rep) == {r \in 1..Len(steps) : IsLeafRow(rep, r) /\ FirstAtDepth(r)}

WritesElseIf(step) == Contains(step.own, <<"E", "L", "S", "E", " ", "I", "F", " ">>)

WritesIf(step) == StartsWith(Strip(step.own), <<"I", "F", " ">>)

\* at the indentation of row r an ELSE IF is written that no IF precedes
OrphanElseIf(r) ==
    \E k \in r..Len(steps) :
        /\ steps[k].n_spaces = steps[r].n_spaces
        /\ WritesElseIf(steps[k])
        /\ \A m \in 1..(k - 1) :
               steps[m].n_spaces = steps[r].n_spaces => ~WritesIf(steps[m])

\* the statement of C15 as it stands: a leaf row that is the first row of its
\* indentation ends in an ELSE IF branch with no opening IF there
LeafFirstGivesOrphanElseIf ==
    Returned => \A r \in LeafFirstRows(CurReport) : OrphanElseIf(r)

\* the first row after r at the indentation of r that does not hold class
NextCounted(r, k) ==
    /\ k > r
    /\ steps[k].n_spaces = steps[r].n_spaces
    /\ ~HasClass(k)
    /\ \A m \in (r + 1)..(k - 1) : steps[m].n_spaces = steps[r].n_spaces => HasClass(m)

(***************************************************************************)
(* C15, amended: when the first row seen at some indentation is a leaf     *)
(* row, its count goes back to 0 and get_front_add computes the ELSE IF    *)
(* prefix for it, but the prefix is not written (the row's statement holds *)
(* no IF and no ELSE IF) and nothing is pushed; the next row at that       *)
(* indentation that does not hold the word class is counted 1 and is given *)
(* the IF role, so the leaf row leaves no ELSE IF without an opening IF.   *)
(***************************************************************************)
LeafFirstWritesNoElseIf ==
    InCall =>
        \A r \in LeafFirstRows(CurReport) :
            /\ steps[r].count = 0
            /\ RoleOf(steps[r]) = "ELSE IF"
            /\ ~Contains(steps[r].own, <<"I", "F", " ">>)
            /\ ~Pushed(steps[r])
            /\ \A k \in 1..Len(steps) :
                   NextCounted(r, k) =>
                       /\ steps[k].count = 1
                       /\ RoleOf(steps[k]) = "IF"
                       /\ ~WritesElseIf(steps[k])
                       /\ (k <= Len(CurReport) /\ IsCondRow(CurReport, k)) => WritesIf(steps[k])

\* a leaf row came first at its indentation and the condition row that
\* follows there opens with IF
LeafFirstWitness ==
    /\ Returned
    /\ \E r \in LeafFirstRows(CurReport) :
           \E k \in 1..Len(CurReport) :
               /\ NextCounted(r, k)
               /\ IsCondRow(CurReport, k)
               /\ WritesIf(steps[k])
               /\ ~OrphanElseIf(r)

\* the condition row r is written as: its indentation, the role prefix
\* once, the feature name and operator of the rendering, and a number
\* whose value is the threshold of the node
PayloadKept(rep, r) ==
    LET s      == steps[r]
        then   == <<" ", "T", "H", "E", "N", " ", "D", "O", ";">>
        name   == FeatureOf(features, rep[r].node)
        op     == IF rep[r].kind = "le" THEN <<" ", "<", "=">> ELSE <<" ", ">">>
        body   == SubSeq(s.own, 1, Len(s.own) - Len(then))
        parts  == RSplit1(body)
    IN  /\ EndsWith(s.own, then)
        /\ Len(parts) = 2
        /\ parts[1] = Repeat(" ", s.n_spaces) \o s.front_add \o name \o op
        /\ IsFloatLiteral(parts[2])
        /\ ParseFloat(parts[2]) = ThresholdOf(rep[r].node)

CondRowsDone(rep) == {r \in 1..Len(steps) : r <= Len(rep) /\ IsCondRow(rep, r)}

(***************************************************************************)
(* C16: normalization and prefix insertion only touch the leading          *)
(* connector columns of a condition row: the feature and operator text     *)
(* after the indentation is reproduced verbatim and the threshold keeps    *)
(* its value and sign, also when the payload holds a '-' (a negative       *)
(* threshold, a hyphenated name) or a run of n_spaces spaces; the role     *)
(* prefix is inserted exactly once, at the end of the indentation.         *)
(***************************************************************************)
PayloadPreserved ==
    InCall => \A r \in CondRowsDone(CurReport) : PayloadKept(CurReport, r)

\* rows whose payload holds no '-', no 'class', no run of spaces, and whose
\* threshold has no more than six significant digits
PlainPayload(rep, r) ==
    /\ PlainNames
    /\ ThresholdOf(rep[r].node) >= 0
    /\ ParseFloat(FormatG(ThresholdOf(rep[r].node))) = ThresholdOf(rep[r].node)

PlainPayloadPreserved ==
    InCall => \A r \in CondRowsDone(CurReport) :
                  PlainPayload(CurReport, r) => PayloadKept(CurReport, r)

PlainPayloadWitness ==
    /\ InCall
    /\ \E r \in CondRowsDone(CurReport) :
           PlainPayload(CurReport, r) /\ PayloadKept(CurReport, r)

\* the statement of the last segment of the text, which is empty when the
\* text ends with a line separator
LastStep == steps[Len(steps)]

FlushRule ==
    /\ Len(steps) = Len(splitted_rules)
    /\ splitted_rules[Len(splitted_rules)] = <<>>
    /\ LastStep.n_spaces = 0
    /\ LastStep.count = 1
    /\ StrictlyIncreasing(LastStep.before)
    /\ LastStep.npops = Len(LastStep.before)
    /\ LastStep.after = <<>>
    /\ LastStep.own = <<>>
    /\ LastStep.emitted = Flatten([k \in 1..LastStep.npops |-> EndLine])
    /\ EndsWith(sas_rules, <<NL>> \o Repeat(" ", spacing) \o LastStep.emitted \o <<"R", "U", "N", ";">>)

(***************************************************************************)
(* C17: end-of-input flush.  When the text ends with a line separator the  *)
(* empty last segment is processed as a row of indentation 0 that is no    *)
(* leaf row: it pops every entry still on the stack, one END; each,        *)
(* innermost first, pushes nothing and contributes no IF, ELSE IF or       *)
(* assignment text; after one trailing line separator is trimmed the       *)
(* block ends with those END; lines followed directly by RUN;.             *)
(***************************************************************************)
EndOfInputFlush == Returned => FlushRule

\* a translation that ends with two blocks still open
FlushWitness == Returned /\ FlushRule /\ LastStep.npops = 2

Finished == pc \in {"returned", "raised"}

\* how many entries the rows 1..r popped
RECURSIVE Pops(_)
Pops(r) == IF r = 0 THEN 0 ELSE steps[r].npops + Pops(r - 1)

\* row r is a condition row that lines 91-93 cannot take apart
Malformed(r) ==
    LET line == Normalize(splitted_rules[r])
        words == RSplit1(line)
    IN  /\ Contains(line, <<"<">>) \/ Contains(line, <<">">>)
        /\ Len(words) < 2 \/ ~IsFloatLiteral(words[2])

\* the statement of C18 as it stands: whatever the lines are, the
\* translation ends only after every line was processed
EveryLineProcessed ==
    Finished => (pc = "returned" /\ pos = Len(splitted_rules))

\* the rows are taken once each, in the order of the text
ForwardScan ==
    InCall =>
        /\ Len(steps) = pos
        /\ pos <= Len(splitted_rules)
        /\ splitted_rules = Split(text, NL)
        /\ \A r \in 1..pos :
               /\ steps[r].n_spaces = LeadingSpaces(Normalize(splitted_rules[r]))
               /\ steps[r].npops <= Len(steps[r].before)
               /\ r > 1 => steps[r].before = steps[r - 1].after
               /\ Pops(r) <= Pushes(r)
               /\ Pushes(r) <= r
               /\ ~Malformed(r)
        /\ current_elseif_count = (IF pos = 0 THEN <<>> ELSE steps[pos].after)
        /\ Returned => pos = Len(splitted_rules)

\* a call that raised stopped at the first malformed condition row
StoppedAtMalformed ==
    pc = "raised" =>
        /\ Len(steps) = pos
        /\ pos \in 1..Len(splitted_rules)
        /\ Malformed(pos)
        /\ \A r \in 1..(pos - 1) : ~Malformed(r)
        /\ Pops(pos) <= Pushes(pos)
        /\ Pushes(pos) <= pos
        /\ error = ValueError

(***************************************************************************)
(* C18, amended: termination.  For every finite sequence of input lines    *)
(* the translation terminates: it processes the lines once each, in order, *)
(* up to the end of the text, or up to the first condition line that has   *)
(* fewer than two words or whose last word is no number, where it raises   *)
(* ValueError.  The pop loop removes one stack entry per iteration and     *)
(* never more than the stack holds, and at every point the pops performed  *)
(* are at most the pushes performed, which are at most the lines           *)
(* processed.                                                              *)
(***************************************************************************)
TerminatesOrRaises == [](ForwardScan /\ StoppedAtMalformed) /\ <>Finished

\* a text with a malformed row in the middle, and a text processed to its
\* end with pushes and pops
RaisedWitness == pc = "raised" /\ pos < Len(splitted_rules) - 1 /\ pos > 1

ProcessedWitness == Returned /\ pos = Len(splitted_rules) /\ Pops(pos) >= 1

====
